---- MODULE Spec2Model ----
(***************************************************************************)
(* consul-monitor: the background poller (background_poller.py), the       *)
(* registry reconciler (consul_client.py), the SQLite store (database.py)  *)
(* and the chart aggregator (app.py), as one state machine.                *)
(*                                                                         *)
(* Time is counted in minutes.  The payload columns port, tags and meta of *)
(* a service are carried through the code untouched and are left out.      *)
(***************************************************************************)
EXTENDS Integers, Sequences, FiniteSets, TLC

VARIABLES
    instances,        \* table instances: set of rows (address is the key)
    services,         \* table services: set of rows (id is the key)
    health_checks,    \* table health_checks: sequence of rows, AUTOINCREMENT id = index
    instance_health,  \* table instance_health: sequence of rows
    now,              \* CURRENT_TIMESTAMP / datetime.utcnow(), in minutes
    registry,         \* the answers the Consul HTTP API may give in this run
    first_request,    \* app.py global first_request
    poller,           \* background_poller.py global poller (0 = None)
    created,          \* ConsulPoller objects constructed so far
    running,          \* ConsulPoller.running, per object
    sched,            \* per object: its BackgroundScheduler
    tpc,              \* per request thread: where it is
    tself,            \* per request thread: the object whose start() it runs
    cyc,              \* per execution of poll_consul: where it is
    exiting,          \* the interpreter is running its atexit handlers
    history,          \* the history route: its arguments and the rows the store gave it
    chart,            \* the history route: what aggregate_health_data made of them
    dashboard,        \* the services route: what get_all_services_grouped returned
    session           \* the Flask session of the one client

vars == <<instances, services, health_checks, instance_health, now, registry,
          first_request, poller, created, running, sched, tpc, tself, cyc, exiting,
          history, chart, dashboard, session>>

(***************************************************************************)
(* Bounds                                                                  *)
(***************************************************************************)
NumThreads == 2
MaxChecks == 1
MaxTicks == 2
MaxAdvances == 2
MaxRows == 2
MaxSamples == 6

Threads == 1..NumThreads
\* A ConsulPoller object is named after the request thread that constructed it.
Pollers == Threads
\* poll_consul runs either inside start() on a request thread, or as the
\* scheduler's job on the one worker thread of that scheduler's executor.
Ctx == ({"req"} \X Threads) \cup ({"job"} \X Pollers)

Recognized == {"passing", "warning", "critical"}
Statuses == Recognized \cup {"maintenance"}
CheckNames == <<"chk1", "chk2", "chk3", "chk4">>

(***************************************************************************)
(* database.py                                                             *)
(***************************************************************************)
\* A DATETIME column holds text.  CURRENT_TIMESTAMP writes the UTC time as
\* 'YYYY-MM-DD HH:MM:SS'; fmt names the form of the text and t the instant it
\* spells.  Texts of this one form compare as their instants do.
CURRENT_TIMESTAMP(t) == [fmt |-> "sqlite", t |-> t]

upsert_instance_replace(tbl, address, health_status, ts) ==
    {r \in tbl : r.address # address}
        \cup {[address |-> address, health_status |-> health_status,
               first_seen |-> ts, last_seen |-> ts]}

upsert_instance(tbl, address, health_status, ts) ==
    IF \E r \in tbl : r.address = address
    THEN {IF r.address = address
          THEN [r EXCEPT !.health_status = health_status, !.last_seen = ts]
          ELSE r : r \in tbl}
    ELSE tbl \cup {[address |-> address, health_status |-> health_status,
                    first_seen |-> ts, last_seen |-> ts]}

upsert_service_replace(tbl, service_data, instance_address, ts) ==
    {r \in tbl : r.id # service_data.id}
        \cup {[id |-> service_data.id, name |-> service_data.name,
               address |-> instance_address, first_seen |-> ts, last_seen |-> ts]}

upsert_service(tbl, service_data, instance_address, ts) ==
    IF \E r \in tbl : r.id = service_data.id
    THEN {IF r.id = service_data.id
          THEN [r EXCEPT !.name = service_data.name, !.address = instance_address,
                         !.last_seen = ts]
          ELSE r : r \in tbl}
    ELSE tbl \cup {[id |-> service_data.id, name |-> service_data.name,
                    address |-> instance_address, first_seen |-> ts, last_seen |-> ts]}

insert_instance_health(tbl, address, health_status, ts) ==
    Append(tbl, [address |-> address, health_status |-> health_status, timestamp |-> ts])

insert_health_check_dedup(tbl, service_id, check_name, status, ts) ==
    LET same == {i \in 1..Len(tbl) : tbl[i].service_id = service_id
                                     /\ tbl[i].check_name = check_name}
        last == CHOOSE i \in same : \A j \in same : j <= i
    IN  IF same # {} /\ tbl[last].status = status
        THEN tbl
        ELSE Append(tbl, [service_id |-> service_id, check_name |-> check_name,
                          status |-> status, timestamp |-> ts])

insert_health_check(tbl, service_id, check_name, status, ts) ==
    Append(tbl, [service_id |-> service_id, check_name |-> check_name,
                 status |-> status, timestamp |-> ts])

\* ORDER BY hc.timestamp ASC over the rows `rows` of tbl: every order the
\* clause allows (rows of one timestamp come in any order), as (status,
\* timestamp) pairs.
RECURSIVE order_by_timestamp(_, _)
order_by_timestamp(tbl, rows) ==
    IF rows = {} THEN {<<>>}
    ELSE LET first == {i \in rows : \A j \in rows : tbl[i].timestamp.t <= tbl[j].timestamp.t}
             \* one row per distinct pair: equal pairs give equal results
             pick == {i \in first : \A j \in first :
                        tbl[j].status = tbl[i].status => i <= j}
         IN  UNION {{<<[status |-> tbl[i].status, timestamp |-> tbl[i].timestamp]>> \o rest
                     : rest \in order_by_timestamp(tbl, rows \ {i})}
                    : i \in pick}

get_service_history_by_name(hc, svcs, service_name, instance_address, hours, t) ==
    order_by_timestamp(hc,
        {i \in 1..Len(hc) :
            /\ \E s \in svcs : /\ hc[i].service_id = s.id
                               /\ s.name = service_name
            /\ hc[i].timestamp.t >= t - hours * 60})

\* SELECT hc.status, hc.timestamp FROM health_checks hc JOIN services s ON
\* hc.service_id = s.id WHERE s.name = ? AND s.address = ? AND hc.timestamp >=
\* datetime('now', '-<hours> hours') ORDER BY hc.timestamp ASC
get_service_history(hc, svcs, service_name, instance_address, hours, t) ==
    order_by_timestamp(hc,
        {i \in 1..Len(hc) :
            /\ \E s \in svcs : /\ hc[i].service_id = s.id
                               /\ s.name = service_name
                               /\ s.address = instance_address
            /\ hc[i].timestamp.t >= t - hours * 60})

\* latest_health: SELECT service_id, status, MAX(timestamp) ... GROUP BY
\* service_id.  The bare column status comes from a row holding the maximum,
\* any of them when several do; the LEFT JOIN gives NULL ("None") to a service
\* without rows.
latest_health(hc, service_id) ==
    LET rows == {i \in 1..Len(hc) : hc[i].service_id = service_id}
        last == {i \in rows : \A j \in rows : hc[j].timestamp.t <= hc[i].timestamp.t}
    IN  IF rows = {} THEN {"None"} ELSE {hc[i].status : i \in last}

\* The orders json_group_array may list the services S in.
RECURSIVE Perms(_)
Perms(S) ==
    IF S = {} THEN {<<>>}
    ELSE UNION {{<<x>> \o rest : rest \in Perms(S \ {x})} : x \in S}

\* any(inst.get('current_status') == status for inst in instances)
RECURSIVE any_status(_, _)
any_status(insts, status) ==
    IF insts = <<>> THEN FALSE
    ELSE IF Head(insts).current_status = status THEN TRUE
    ELSE any_status(Tail(insts), status)

\* all(inst.get('current_status') == status for inst in instances)
RECURSIVE all_status(_, _)
all_status(insts, status) ==
    IF insts = <<>> THEN TRUE
    ELSE IF Head(insts).current_status # status THEN FALSE
    ELSE all_status(Tail(insts), status)

composite_status_default_passing(insts) ==
    IF any_status(insts, "critical") THEN "critical"
    ELSE IF any_status(insts, "warning") THEN "warning"
    ELSE "passing"

composite_status(insts) ==
    IF any_status(insts, "critical") THEN "critical"
    ELSE IF any_status(insts, "warning") THEN "warning"
    ELSE IF all_status(insts, "passing") THEN "passing"
    ELSE "unknown"

\* The rows GROUP BY s.name can give for one name.
grouped_row(hc, svcs, name) ==
    LET members == {x \in svcs : x.name = name}
        latest == {f \in [{x.id : x \in members} -> Statuses \cup {"None"}] :
                      \A id \in DOMAIN f : f[id] \in latest_health(hc, id)}
    IN  {[name |-> name,
          instances |-> [k \in 1..Len(p) |->
                            [id |-> p[k].id, address |-> p[k].address,
                             current_status |-> f[p[k].id]]],
          composite_status |->
              composite_status([k \in 1..Len(p) |-> [current_status |-> f[p[k].id]]])]
         : p \in Perms(members), f \in latest}

\* ORDER BY s.name, over the names the registries of this model use.
SortedNames == <<"A", "B", "C", "api", "db", "web">>

RECURSIVE grouped_rows(_, _, _)
grouped_rows(hc, svcs, names) ==
    IF names = <<>> THEN {<<>>}
    ELSE {<<row>> \o rest : row \in grouped_row(hc, svcs, Head(names)),
                            rest \in grouped_rows(hc, svcs, Tail(names))}

get_all_services_grouped(hc, svcs) ==
    grouped_rows(hc, svcs,
                 SelectSeq(SortedNames, LAMBDA name : \E x \in svcs : x.name = name))

(***************************************************************************)
(* consul_client.py                                                        *)
(***************************************************************************)
get_all_service_names(reg) == SelectSeq(reg.names, LAMBDA name : name # "consul")

get_service_instances(reg, service_name) == reg.svc[service_name].catalog

\* A RequestException is caught and answered by []; any other payload is
\* handed to the caller as it is.
get_service_health(reg, service_name) ==
    IF reg.svc[service_name].health.kind = "error"
    THEN <<>>
    ELSE reg.svc[service_name].health.entries

\* The loop that builds health_map reads entry['Node']['Node'],
\* entry['Service']['ID'] and entry['Checks']: a payload of another shape
\* raises there (KeyError, TypeError).
health_map_raises(reg, service_name) ==
    reg.svc[service_name].health.kind = "malformed"

health_map_get_by_id(health_data, node, service_id) ==
    LET hits == {i \in 1..Len(health_data) : health_data[i].ServiceID = service_id}
    IN  IF hits = {} THEN <<>>
        ELSE health_data[CHOOSE i \in hits : \A j \in hits : j <= i].Checks

\* health_map[(node, service_id)] = entry['Checks'], a later entry replacing
\* an earlier one with the same key; then health_map.get(key, []).
health_map_get(health_data, node, service_id) ==
    LET hits == {i \in 1..Len(health_data) :
                    /\ health_data[i].Node = node
                    /\ health_data[i].ServiceID = service_id}
    IN  IF hits = {} THEN <<>>
        ELSE health_data[CHOOSE i \in hits : \A j \in hits : j <= i].Checks

\* service_data[service_id] = service_obj
dict_set(service_data, service_obj) ==
    IF \E i \in 1..Len(service_data) : service_data[i].id = service_obj.id
    THEN [i \in 1..Len(service_data) |->
            IF service_data[i].id = service_obj.id THEN service_obj ELSE service_data[i]]
    ELSE Append(service_data, service_obj)

\* instances[address]['services'].append(service_obj) on the defaultdict
add_to_instance(insts, address, service_obj) ==
    IF \E i \in 1..Len(insts) : insts[i].address = address
    THEN [i \in 1..Len(insts) |->
            IF insts[i].address = address
            THEN [insts[i] EXCEPT !.services = Append(@, service_obj)]
            ELSE insts[i]]
    ELSE Append(insts, [address |-> address, health_status |-> "passing",
                        services |-> <<service_obj>>])

RECURSIVE process_instances(_, _, _, _)
process_instances(acc, service_name, catalog_instances, health_data) ==
    IF catalog_instances = <<>> THEN acc
    ELSE LET instance == Head(catalog_instances)
             address == IF instance.ServiceAddress # ""
                        THEN instance.ServiceAddress ELSE instance.Address
             checks == health_map_get(health_data, instance.Node, instance.ServiceID)
             service_obj ==
                [id |-> instance.ServiceID, name |-> service_name, address |-> address,
                 health_checks |-> [i \in 1..Len(checks) |->
                    [check_name |-> checks[i].Name, status |-> checks[i].Status]]]
         IN  process_instances(
                [services |-> dict_set(acc.services, service_obj),
                 instances |-> add_to_instance(acc.instances, address, service_obj)],
                service_name, Tail(catalog_instances), health_data)

RECURSIVE process_names(_, _, _)
process_names(acc, service_names, reg) ==
    IF service_names = <<>> THEN acc
    ELSE LET service_name == Head(service_names)
             catalog_instances == get_service_instances(reg, service_name)
         IN  IF catalog_instances = <<>>
             THEN process_names(acc, Tail(service_names), reg)
             ELSE process_names(
                    process_instances(acc, service_name, catalog_instances,
                                      get_service_health(reg, service_name)),
                    Tail(service_names), reg)

status_priority_warning_first(s) ==
    CASE s = "critical" -> 2 [] s = "warning" -> 3 [] s = "passing" -> 1 [] OTHER -> 0

status_priority(s) ==
    CASE s = "critical" -> 3 [] s = "warning" -> 2 [] s = "passing" -> 1 [] OTHER -> 0

RECURSIVE all_checks(_)
all_checks(svcs) ==
    IF svcs = <<>> THEN <<>> ELSE Head(svcs).health_checks \o all_checks(Tail(svcs))

RECURSIVE worst_of(_, _)
worst_of(worst_status, checks) ==
    IF checks = <<>> THEN worst_status
    ELSE worst_of(IF status_priority(Head(checks).status) > status_priority(worst_status)
                  THEN Head(checks).status ELSE worst_status,
                  Tail(checks))

composite_health(instance) == worst_of("passing", all_checks(instance.services))

\* What fetch_all_service_data returns for {} (no names, or the outer except).
EmptyData == [empty |-> TRUE, services |-> <<>>, instances |-> <<>>]

fetch_raises(reg) ==
    \E i \in 1..Len(get_all_service_names(reg)) :
        LET service_name == get_all_service_names(reg)[i]
        IN  /\ get_service_instances(reg, service_name) # <<>>
            /\ health_map_raises(reg, service_name)

fetch_all_service_data(reg) ==
    LET service_names == get_all_service_names(reg)
        acc == process_names([services |-> <<>>, instances |-> <<>>], service_names, reg)
    IN  IF service_names = <<>> THEN EmptyData
        ELSE IF fetch_raises(reg) THEN EmptyData
        ELSE [empty |-> FALSE,
              services |-> acc.services,
              instances |-> [i \in 1..Len(acc.instances) |->
                    [acc.instances[i] EXCEPT
                        !.health_status = composite_health(acc.instances[i])]]]

(***************************************************************************)
(* background_poller.py: poll_consul                                       *)
(***************************************************************************)
WriteOp(op, address, status, id, name, check_name) ==
    [op |-> op, address |-> address, status |-> status, id |-> id, name |-> name,
     check_name |-> check_name]

\* The statements of "for service in instance['services']" for one service.
service_writes(service, address) ==
    <<WriteOp("upsert_service", address, "", service.id, service.name, "")>>
    \o [i \in 1..Len(service.health_checks) |->
            WriteOp("insert_health_check", "", service.health_checks[i].status,
                    service.id, "", service.health_checks[i].check_name)]

RECURSIVE services_writes(_, _)
services_writes(svcs, address) ==
    IF svcs = <<>> THEN <<>>
    ELSE service_writes(Head(svcs), address) \o services_writes(Tail(svcs), address)

RECURSIVE write_plan_services_first(_)
write_plan_services_first(insts) ==
    IF insts = <<>> THEN <<>>
    ELSE LET instance == Head(insts)
         IN  services_writes(instance.services, instance.address)
             \o <<WriteOp("upsert_instance", instance.address, instance.health_status, "", "", ""),
                  WriteOp("insert_instance_health", instance.address, instance.health_status,
                          "", "", "")>>
             \o write_plan_services_first(Tail(insts))

\* The statements of "for address, instance in instances.items()", in order.
RECURSIVE write_plan(_)
write_plan(insts) ==
    IF insts = <<>> THEN <<>>
    ELSE LET instance == Head(insts)
         IN  <<WriteOp("upsert_instance", instance.address, instance.health_status, "", "", ""),
               WriteOp("insert_instance_health", instance.address, instance.health_status,
                       "", "", "")>>
             \o services_writes(instance.services, instance.address)
             \o write_plan(Tail(insts))

\* One execution context of poll_consul: pc is the statement it is at, plan the
\* statements of its write loops and k how many of them are done, conns the
\* connections it has opened and not closed, hc0 and ih0 the lengths of the two
\* history tables when it opened its connection, outcome how its last
\* execution ended: "ok" (Poll complete), "unavailable" and "nodata" (the early
\* returns), "error" (the except clause).
IdleCycle == [pc |-> "idle", plan |-> <<>>, k |-> 0, conns |-> 0, hc0 |-> 0, ih0 |-> 0,
              outcome |-> "none"]

JobDone_lost(c) == UNCHANGED sched

\* The executor's count of submitted runs of the job goes down when a run ends.
JobDone(c) ==
    IF c[1] = "job"
    THEN sched' = [sched EXCEPT ![c[2]].submitted = @ - 1]
    ELSE UNCHANGED sched

\* poll_consul returns: by return, by falling off the end, or from its except.
Finish(c, outcome) ==
    /\ cyc' = [cyc EXCEPT ![c] = [IdleCycle EXCEPT !.conns = cyc[c].conns,
                                                  !.outcome = outcome]]
    /\ JobDone(c)

StoreUnchanged == UNCHANGED <<instances, services, health_checks, instance_health>>

PollProbe_falls_through(c) ==
    /\ cyc[c].pc = "probe"
    /\ \E available \in BOOLEAN :
          IF available
          THEN cyc' = [cyc EXCEPT ![c].pc = "fetch"]
          ELSE cyc' = [cyc EXCEPT ![c].pc = "fetch", ![c].outcome = "unavailable"]
    /\ UNCHANGED sched
    /\ StoreUnchanged
    /\ UNCHANGED <<dashboard, session, history, chart, now, registry, first_request, poller, created, running, tpc, tself, exiting>>

\* if not consul_client.is_consul_available(): return
PollProbe(c) ==
    /\ cyc[c].pc = "probe"
    /\ \E available \in BOOLEAN :
          IF available
          THEN /\ cyc' = [cyc EXCEPT ![c].pc = "fetch"]
               /\ UNCHANGED sched
          ELSE Finish(c, "unavailable")
    /\ StoreUnchanged
    /\ UNCHANGED <<dashboard, session, history, chart, now, registry, first_request, poller, created, running, tpc, tself, exiting>>

\* consul_data = fetch_all_service_data(); the two early returns
PollFetch(c) ==
    /\ cyc[c].pc = "fetch"
    /\ \E reg \in registry :
         LET consul_data == fetch_all_service_data(reg)
         IN
           IF consul_data.empty \/ consul_data.services = <<>>
           THEN Finish(c, "nodata")
           ELSE /\ cyc' = [cyc EXCEPT ![c].pc = "open",
                                      ![c].plan = write_plan(consul_data.instances),
                                      ![c].k = 0]
                /\ UNCHANGED sched
    /\ StoreUnchanged
    /\ UNCHANGED <<dashboard, session, history, chart, now, registry, first_request, poller, created, running, tpc, tself, exiting>>

\* conn = self.get_db_conn(): sqlite3.connect and create_tables may raise
PollOpen(c) ==
    /\ cyc[c].pc = "open"
    /\ \E opened \in BOOLEAN :
          IF opened
          THEN /\ cyc' = [cyc EXCEPT ![c].pc = "write", ![c].conns = @ + 1,
                                     ![c].hc0 = Len(health_checks),
                                     ![c].ih0 = Len(instance_health)]
               /\ UNCHANGED sched
          ELSE Finish(c, "error")
    /\ StoreUnchanged
    /\ UNCHANGED <<dashboard, session, history, chart, now, registry, first_request, poller, created, running, tpc, tself, exiting>>

\* One statement of the write loops on the tables db, at time ts.
apply_write(db, w, ts) ==
    [instances |-> IF w.op = "upsert_instance"
                   THEN upsert_instance(db.instances, w.address, w.status, ts)
                   ELSE db.instances,
     instance_health |-> IF w.op = "insert_instance_health"
                         THEN insert_instance_health(db.instance_health, w.address, w.status, ts)
                         ELSE db.instance_health,
     services |-> IF w.op = "upsert_service"
                  THEN upsert_service(db.services, w, w.address, ts)
                  ELSE db.services,
     health_checks |-> IF w.op = "insert_health_check"
                       THEN insert_health_check(db.health_checks, w.id, w.check_name,
                                                w.status, ts)
                       ELSE db.health_checks]

\* All statements of a cycle's write loops, none failing.
RECURSIVE apply_plan(_, _, _)
apply_plan(db, plan, ts) ==
    IF plan = <<>> THEN db ELSE apply_plan(apply_write(db, Head(plan), ts), Tail(plan), ts)

\* One statement of the write loops; each commits on its own.
ApplyWrite(w) ==
    LET db == apply_write([instances |-> instances, instance_health |-> instance_health,
                           services |-> services, health_checks |-> health_checks],
                          w, CURRENT_TIMESTAMP(now))
    IN  /\ instances' = db.instances
        /\ instance_health' = db.instance_health
        /\ services' = db.services
        /\ health_checks' = db.health_checks

PollWrite(c) ==
    /\ cyc[c].pc = "write"
    /\ cyc[c].k < Len(cyc[c].plan)
    /\ \E raised \in BOOLEAN :
          IF raised
          THEN \* sqlite3.Error in execute or commit: the except logs it; conn stays open
               /\ Finish(c, "error")
               /\ StoreUnchanged
          ELSE /\ ApplyWrite(cyc[c].plan[cyc[c].k + 1])
               /\ cyc' = [cyc EXCEPT ![c].k = @ + 1]
               /\ UNCHANGED sched
    /\ UNCHANGED <<dashboard, session, history, chart, now, registry, first_request, poller, created, running, tpc, tself, exiting>>

\* conn.close() and the closing log line
PollClose(c) ==
    /\ cyc[c].pc = "write"
    /\ cyc[c].k = Len(cyc[c].plan)
    /\ cyc' = [cyc EXCEPT ![c] = [IdleCycle EXCEPT !.conns = cyc[c].conns - 1,
                                                  !.outcome = "ok"]]
    /\ JobDone(c)
    /\ StoreUnchanged
    /\ UNCHANGED <<dashboard, session, history, chart, now, registry, first_request, poller, created, running, tpc, tself, exiting>>

(***************************************************************************)
(* Registry answers                                                        *)
(***************************************************************************)
NodeAddress(node) == IF node = "n1" THEN "a1" ELSE "a2"

CatalogEntry(node, service_id, service_address) ==
    [Node |-> node, ServiceID |-> service_id, ServiceAddress |-> service_address,
     Address |-> NodeAddress(node)]

\* The Checks of one health entry: up to n checks, every status.
CheckLists(n, statuses) ==
    UNION {{[i \in 1..k |-> [Name |-> CheckNames[i], Status |-> f[i]]] : f \in [1..k -> statuses]}
           : k \in 0..n}

\* /v1/health/service/<name> for a catalog: per catalog instance an entry or none.
HealthEntries(catalog, lists) ==
    {LET present == {i \in 1..Len(catalog) : f[i].present}
         RECURSIVE build(_)
         build(i) == IF i > Len(catalog) THEN <<>>
                     ELSE (IF i \in present
                           THEN <<[Node |-> catalog[i].Node, ServiceID |-> catalog[i].ServiceID,
                                   Checks |-> f[i].checks]>>
                           ELSE <<>>) \o build(i + 1)
     IN  build(1)
     : f \in [1..Len(catalog) -> [present : BOOLEAN, checks : lists]]}

HealthAnswers(catalog, lists, faults) ==
    {[kind |-> "ok", entries |-> e] : e \in HealthEntries(catalog, lists)}
    \cup {[kind |-> k, entries |-> <<>>] : k \in faults}

ServiceAnswers(catalogs, lists, faults) ==
    UNION {{[catalog |-> c, health |-> h] : h \in HealthAnswers(c, lists, faults)}
           : c \in catalogs}

(***************************************************************************)
(* background_poller.py: ConsulPoller, start_background_polling            *)
(* app.py: initialize_background_services                                  *)
(***************************************************************************)
\* job_defaults={'coalesce': True, 'max_instances': 1}
max_instances == 1

\* BackgroundScheduler as __init__ leaves it: not started, no job.  ticks counts
\* the interval trigger's firings.
NewScheduler == [state |-> "stopped", jobs |-> 0, pending |-> 0, submitted |-> 0, ticks |-> 0]

RECURSIVE Sum(_, _)
Sum(f, S) == IF S = {} THEN 0 ELSE LET x == CHOOSE x \in S : TRUE IN f[x] + Sum(f, S \ {x})

\* The interval trigger's firings so far, over all schedulers.
TotalTicks == Sum([p \in Pollers |-> sched[p].ticks], Pollers)

\* @app.before_request: if first_request: ...  (with first_request False the
\* hook does nothing)
Request(t) ==
    /\ tpc[t] = "idle"
    /\ ~exiting
    /\ first_request
    /\ tpc' = [tpc EXCEPT ![t] = "start_background_polling"]
    /\ StoreUnchanged
    /\ UNCHANGED <<dashboard, session, history, chart, now, registry, first_request, poller, created, running, sched, tself, cyc,
                   exiting>>

\* if poller is None
CheckPoller(t) ==
    /\ tpc[t] = "start_background_polling"
    /\ tpc' = [tpc EXCEPT ![t] = IF poller = 0 THEN "construct" ELSE "return"]
    /\ StoreUnchanged
    /\ UNCHANGED <<dashboard, session, history, chart, now, registry, first_request, poller, created, running, sched, tself, cyc,
                   exiting>>

\* poller = ConsulPoller(get_database_connection)
Construct(t) ==
    /\ tpc[t] = "construct"
    /\ created' = created \cup {t}
    /\ poller' = t
    /\ tpc' = [tpc EXCEPT ![t] = "start"]
    /\ StoreUnchanged
    /\ UNCHANGED <<dashboard, session, history, chart, now, registry, first_request, running, sched, tself, cyc, exiting>>

\* poller.start(): the global is read again; if not self.running: self.poll_consul()
Start(t) ==
    /\ tpc[t] = "start"
    /\ tself' = [tself EXCEPT ![t] = poller]
    /\ IF running[poller]
       THEN /\ tpc' = [tpc EXCEPT ![t] = "return"]
            /\ UNCHANGED cyc
       ELSE /\ tpc' = [tpc EXCEPT ![t] = "poll_consul"]
            /\ cyc' = [cyc EXCEPT ![<<"req", t>>].pc = "probe",
                                   ![<<"req", t>>].outcome = "none"]
    /\ StoreUnchanged
    /\ UNCHANGED <<dashboard, session, history, chart, now, registry, first_request, poller, created, running, sched, exiting>>

\* self.scheduler.add_job(..., id='consul_poll'): held as pending until the
\* scheduler starts; on a started scheduler a second job of that id raises
\* ConflictingIdError, which leaves start() and the request.
StartAddJob(t) ==
    /\ tpc[t] = "poll_consul"
    /\ cyc[<<"req", t>>].pc = "idle"
    /\ LET s == tself[t]
       IN  IF sched[s].state = "running"
           THEN IF sched[s].jobs >= 1
                THEN /\ tpc' = [tpc EXCEPT ![t] = "idle"]
                     /\ UNCHANGED sched
                ELSE /\ sched' = [sched EXCEPT ![s].jobs = 1]
                     /\ tpc' = [tpc EXCEPT ![t] = "scheduler_start"]
           ELSE /\ sched' = [sched EXCEPT ![s].pending = @ + 1]
                /\ tpc' = [tpc EXCEPT ![t] = "scheduler_start"]
    /\ StoreUnchanged
    /\ UNCHANGED <<dashboard, session, history, chart, now, registry, first_request, poller, created, running, tself, cyc, exiting>>

\* self.scheduler.start(): SchedulerAlreadyRunningError on a started scheduler;
\* otherwise the pending jobs are added, a second one of the same id raising
\* ConflictingIdError before the scheduler is marked started.
StartScheduler(t) ==
    /\ tpc[t] = "scheduler_start"
    /\ LET s == tself[t]
       IN  IF sched[s].state = "running"
           THEN /\ tpc' = [tpc EXCEPT ![t] = "idle"]
                /\ UNCHANGED sched
           ELSE IF sched[s].jobs + sched[s].pending > 1
                THEN /\ sched' = [sched EXCEPT ![s].jobs = 1]
                     /\ tpc' = [tpc EXCEPT ![t] = "idle"]
                ELSE /\ sched' = [sched EXCEPT ![s].jobs = @ + sched[s].pending,
                                               ![s].pending = 0,
                                               ![s].state = "running"]
                     /\ tpc' = [tpc EXCEPT ![t] = "set_running"]
    /\ StoreUnchanged
    /\ UNCHANGED <<dashboard, session, history, chart, now, registry, first_request, poller, created, running, tself, cyc, exiting>>

\* self.running = True; atexit.register(lambda: self.stop())
StartSetRunning(t) ==
    /\ tpc[t] = "set_running"
    /\ running' = [running EXCEPT ![tself[t]] = TRUE]
    /\ tpc' = [tpc EXCEPT ![t] = "return"]
    /\ StoreUnchanged
    /\ UNCHANGED <<dashboard, session, history, chart, now, registry, first_request, poller, created, sched, tself, cyc, exiting>>

\* return poller; first_request = False
Return(t) ==
    /\ tpc[t] = "return"
    /\ first_request' = FALSE
    /\ tpc' = [tpc EXCEPT ![t] = "idle"]
    /\ StoreUnchanged
    /\ UNCHANGED <<dashboard, session, history, chart, now, registry, poller, created, running, sched, tself, cyc, exiting>>

\* The interval trigger fires.  The executor refuses a run while max_instances
\* runs of the job are submitted (the scheduler logs and skips it); otherwise
\* the run is handed to the executor's pool.
Tick(p) ==
    /\ sched[p].state = "running"
    /\ sched[p].jobs >= 1
    /\ TotalTicks < MaxTicks
    /\ sched' = [sched EXCEPT ![p].ticks = @ + 1,
                              ![p].submitted = IF @ >= max_instances THEN @ ELSE @ + 1]
    /\ StoreUnchanged
    /\ UNCHANGED <<dashboard, session, history, chart, now, registry, first_request, poller, created, running, tpc, tself, cyc,
                   exiting>>

\* ThreadPoolExecutor(1): the pool's one worker takes a submitted run when it
\* is free.
JobRun(p) ==
    /\ cyc[<<"job", p>>].pc = "idle"
    /\ sched[p].submitted >= 1
    /\ cyc' = [cyc EXCEPT ![<<"job", p>>].pc = "probe", ![<<"job", p>>].outcome = "none"]
    /\ StoreUnchanged
    /\ UNCHANGED <<dashboard, session, history, chart, now, registry, first_request, poller, created, running, sched, tpc, tself,
                   exiting>>

\* atexit: self.stop(): if self.running: scheduler.shutdown(wait=False); running = False
Stop(p) ==
    /\ running[p]
    /\ sched' = [sched EXCEPT ![p].state = "stopped"]
    /\ running' = [running EXCEPT ![p] = FALSE]
    /\ exiting' = TRUE
    /\ StoreUnchanged
    /\ UNCHANGED <<dashboard, session, history, chart, now, registry, first_request, poller, created, tpc, tself, cyc>>

\* An hour passes between two cycles, or with cycles that find the registry
\* unavailable and change nothing (the clock counts minutes).
AdvanceClock ==
    /\ now < 60 * MaxAdvances
    /\ \A c \in Ctx : cyc[c].pc = "idle"
    /\ now' = now + 60
    /\ StoreUnchanged
    /\ UNCHANGED <<dashboard, session, history, chart, registry, first_request, poller, created, running, sched,
                   tpc, tself, cyc, exiting>>

\* app.py get_service_history, first half: database.get_service_history(db_conn,
\* service_name, instance_address, 24).  The store's function takes any hours.
QueryHistory ==
    /\ \E service_name \in {"web", "db"}, instance_address \in {"a1", "a2"}, hours \in {1, 24} :
          \E rows \in get_service_history(health_checks, services, service_name,
                                          instance_address, hours, now) :
             history' = [service_name |-> service_name, instance_address |-> instance_address,
                         hours |-> hours, rows |-> rows]
    /\ StoreUnchanged
    /\ UNCHANGED <<dashboard, session, chart, now, registry, first_request, poller, created, running, sched,
                   tpc, tself, cyc, exiting>>

\* app.py get_services: database.get_all_services_grouped(db_conn)
QueryGrouped ==
    /\ \E result \in get_all_services_grouped(health_checks, services) :
          dashboard' = [kind |-> "ok", services |-> result]
    /\ StoreUnchanged
    /\ UNCHANGED <<session, history, chart, now, registry, first_request, poller, created,
                   running, sched, tpc, tself, cyc, exiting>>

Poll(c) == PollProbe(c) \/ PollFetch(c) \/ PollOpen(c) \/ PollWrite(c) \/ PollClose(c)

(***************************************************************************)
(* app.py aggregate_health_data.  Times are minutes; a percentage is kept   *)
(* in tenths (333 is 33.3).                                                 *)
(***************************************************************************)
\* datetime.fromisoformat(timestamp_str.replace('Z', '+00:00')): the store's
\* 'YYYY-MM-DD HH:MM:SS' gives a naive datetime, a trailing Z an aware one,
\* None has no replace (AttributeError), any other string is a ValueError.
fromisoformat(ts) ==
    IF ts.fmt = "sqlite" THEN [kind |-> "naive", t |-> ts.t]
    ELSE IF ts.fmt = "z" THEN [kind |-> "aware", t |-> ts.t]
    ELSE IF ts.fmt = "null" THEN [kind |-> "AttributeError", t |-> 0]
    ELSE [kind |-> "ValueError", t |-> 0]

isoformat(t) == [fmt |-> "iso", t |-> t]

HoursSpan == 24

\* while current_time < end_time: append, step by window_size (window_size > 0)
RECURSIVE time_slots(_, _, _)
time_slots(current_time, end_time, window_size) ==
    IF current_time < end_time
    THEN <<current_time>> \o time_slots(current_time + window_size, end_time, window_size)
    ELSE <<>>

\* for slot in time_slots: if slot <= timestamp < slot + window_size: ... break
slot_of(slots, t, window_size) ==
    LET hits == {k \in 1..Len(slots) : slots[k] <= t /\ t < slots[k] + window_size}
    IN  IF hits = {} THEN 0 ELSE CHOOSE k \in hits : \A j \in hits : k <= j

\* The loop over raw_history.  Comparing a naive slot with an aware timestamp
\* raises TypeError; the except ValueError clause catches neither that nor the
\* AttributeError of a None timestamp.
RECURSIVE group_checks(_, _, _, _)
group_checks(window_checks, rows, slots, window_size) ==
    IF rows = <<>> THEN [raised |-> FALSE, checks |-> window_checks]
    ELSE LET timestamp == fromisoformat(Head(rows).timestamp)
             k == slot_of(slots, timestamp.t, window_size)
         IN  IF timestamp.kind = "ValueError"
             THEN group_checks(window_checks, Tail(rows), slots, window_size)
             ELSE IF timestamp.kind = "AttributeError"
             THEN [raised |-> TRUE, checks |-> window_checks]
             ELSE IF timestamp.kind = "aware" /\ slots # <<>>
             THEN [raised |-> TRUE, checks |-> window_checks]
             ELSE IF timestamp.kind = "aware" \/ k = 0
             THEN group_checks(window_checks, Tail(rows), slots, window_size)
             ELSE group_checks([window_checks EXCEPT ![k] = Append(@, Head(rows).status)],
                               Tail(rows), slots, window_size)

round_pct_floor(count, total) == (count * 1000) \div total

round_pct_ceiling(count, total) == (count * 1000 + total - 1) \div total

\* round((count / total) * 100, 1), ties to even
round_pct(count, total) ==
    LET q == (count * 1000) \div total
        r == (count * 1000) % total
    IN  IF 2 * r < total THEN q
        ELSE IF 2 * r > total THEN q + 1
        ELSE IF q % 2 = 0 THEN q ELSE q + 1

count_of(checks, status) == Cardinality({i \in 1..Len(checks) : checks[i] = status})

bucket_null(slot, checks) ==
    IF checks # <<>>
    THEN [timestamp |-> isoformat(slot),
          passing |-> round_pct(count_of(checks, "passing"), Len(checks)),
          warning |-> round_pct(count_of(checks, "warning"), Len(checks)),
          critical |-> round_pct(count_of(checks, "critical"), Len(checks))]
    ELSE [timestamp |-> isoformat(slot), passing |-> -1, warning |-> -1, critical |-> -1]

bucket(slot, checks) ==
    IF checks # <<>>
    THEN [timestamp |-> isoformat(slot),
          passing |-> round_pct(count_of(checks, "passing"), Len(checks)),
          warning |-> round_pct(count_of(checks, "warning"), Len(checks)),
          critical |-> round_pct(count_of(checks, "critical"), Len(checks))]
    ELSE [timestamp |-> isoformat(slot), passing |-> 0, warning |-> 0, critical |-> 0]

\* kind is "ok" for a returned list, "raised" for an exception leaving the
\* function, "diverges" for a slot loop that never sees current_time reach
\* end_time (window_size 0); with a negative window_size the loop walks back
\* to datetime.min, where the addition raises OverflowError.
aggregate_health_data(raw_history, granularity_minutes, end_time) ==
    IF raw_history = <<>> THEN [kind |-> "ok", data |-> <<>>]
    ELSE IF granularity_minutes = 0 THEN [kind |-> "diverges", data |-> <<>>]
    ELSE IF granularity_minutes < 0 THEN [kind |-> "raised", data |-> <<>>]
    ELSE LET start_time == end_time - HoursSpan * 60
             slots == time_slots(start_time, end_time, granularity_minutes)
             grouped == group_checks([k \in 1..Len(slots) |-> <<>>], raw_history, slots,
                                     granularity_minutes)
         IN  IF grouped.raised
             THEN [kind |-> "raised", data |-> <<>>]
             ELSE [kind |-> "ok",
                   data |-> [k \in 1..Len(slots) |-> bucket(slots[k], grouped.checks[k])]]

\* int(request.args.get('granularity', ...)): the configured options and
\* other integers a request can carry.
Granularities == {15, 60, 720, 1440, 1000, 0, -60}

\* request.args.get('granularity', default): the parameter or, absent, the default
RequestArgs ==
    {[present |-> FALSE, granularity |-> 0]}
        \cup {[present |-> TRUE, granularity |-> g] : g \in Granularities}

\* session.get(key, default); a key never set is held as 0, which no update stores
session_get(value, default) == IF value = 0 THEN default ELSE value

IntervalOptions == {30, 60, 120, 300, 600}

GranularityOptions == {5, 15, 30, 60}

\* What a POST of the configuration can carry: each key present or not, the
\* numbers in the options or not.
ConfigUpdates ==
    [enabled : {"absent", "true", "false"},
     interval : [present : {TRUE}, value : {60, 300, 45}]
                    \cup {[present |-> FALSE, value |-> 0]},
     historyGranularity : [present : {TRUE}, value : {30, 60, 10, 1000}]
                              \cup {[present |-> FALSE, value |-> 0]}]

\* app.py update_config
UpdateConfig ==
    /\ \E data \in ConfigUpdates :
          session' =
              [auto_refresh_enabled |->
                   IF data.enabled = "absent" THEN session.auto_refresh_enabled
                   ELSE data.enabled,
               auto_refresh_interval |->
                   IF data.interval.present /\ data.interval.value \in IntervalOptions
                   THEN data.interval.value ELSE session.auto_refresh_interval,
               history_granularity |->
                   IF /\ data.historyGranularity.present
                      /\ data.historyGranularity.value \in GranularityOptions
                   THEN data.historyGranularity.value ELSE session.history_granularity]
    /\ StoreUnchanged
    /\ UNCHANGED <<dashboard, history, chart, now, registry, first_request, poller, created,
                   running, sched, tpc, tself, cyc, exiting>>

\* app.py get_service_history, second half: granularity = int(request.args.get(
\* 'granularity', session.get('history_granularity', 15))), then
\* aggregate_health_data(history, granularity)
Aggregate ==
    /\ \E args \in RequestArgs :
          LET granularity == IF args.present THEN args.granularity
                             ELSE session_get(session.history_granularity, 15)
              result == aggregate_health_data(history.rows, granularity, now)
          IN  chart' = [granularity |-> granularity, end_time |-> now,
                        kind |-> result.kind, data |-> result.data]
    /\ StoreUnchanged
    /\ UNCHANGED <<dashboard, session, history, now, registry, first_request, poller, created, running, sched,
                   tpc, tself, cyc, exiting>>

\* app.py get_service_history, the whole route.  The store evaluates
\* datetime('now', '-24 hours') on its clock of whole units; datetime.utcnow()
\* is read after the rows have come back, later by a part of a unit (for the
\* comparisons with the stamps of the store: by one) or by more.
ServiceHistory ==
    /\ \E service_name \in {"web", "db"}, instance_address \in {"a1", "a2"},
          args \in RequestArgs, elapsed \in {1, 2} :
          \E rows \in get_service_history(health_checks, services, service_name,
                                          instance_address, HoursSpan, now) :
             LET granularity == IF args.present THEN args.granularity
                                ELSE session_get(session.history_granularity, 15)
                 end_time == now + elapsed
                 result == aggregate_health_data(rows, granularity, end_time)
             IN  /\ history' = [service_name |-> service_name,
                                instance_address |-> instance_address,
                                hours |-> HoursSpan, rows |-> rows]
                 /\ chart' = [granularity |-> granularity, end_time |-> end_time,
                              kind |-> result.kind, data |-> result.data]
    /\ StoreUnchanged
    /\ UNCHANGED <<dashboard, session, now, registry, first_request, poller, created, running,
                   sched, tpc, tself, cyc, exiting>>

(***************************************************************************)
(* Spec: the whole service from process start, one registry answer         *)
(***************************************************************************)
OneCheck(status) == <<[Name |-> "chk1", Status |-> status]>>

\* One service "web" on node n1 with one passing check, its health answer
\* well-formed or not, or a catalog that cannot be read (get_all_service_names
\* answers []).
SmallRegistries ==
    {[names |-> ns,
      svc |-> [web |-> [catalog |-> <<CatalogEntry("n1", "web-1", "")>>, health |-> h]]]
     : ns \in {<<"web">>, <<>>},
       h \in {[kind |-> "ok",
               entries |-> <<[Node |-> "n1", ServiceID |-> "web-1",
                              Checks |-> OneCheck("passing")]>>],
              [kind |-> "malformed", entries |-> <<>>]}}

NoHistory == [service_name |-> "", instance_address |-> "", hours |-> 0, rows |-> <<>>]

NoChart == [granularity |-> 0, end_time |-> 0, kind |-> "none", data |-> <<>>]

NoGrouped == [kind |-> "none", services |-> <<>>]

\* A session with no key set; 0 and "unset" stand for a missing key.
NewSession == [auto_refresh_enabled |-> "unset", auto_refresh_interval |-> 0,
               history_granularity |-> 0]

InitStore ==
    /\ instances = {}
    /\ services = {}
    /\ health_checks = <<>>
    /\ instance_health = <<>>
    /\ now = 0
    /\ history = NoHistory
    /\ chart = NoChart
    /\ dashboard = NoGrouped
    /\ session = NewSession

Init ==
    /\ InitStore
    /\ registry = SmallRegistries
    /\ first_request = TRUE
    /\ poller = 0
    /\ created = {}
    /\ running = [p \in Pollers |-> FALSE]
    /\ sched = [p \in Pollers |-> NewScheduler]
    /\ tpc = [t \in Threads |-> "idle"]
    /\ tself = [t \in Threads |-> 0]
    /\ cyc = [c \in Ctx |-> IdleCycle]
    /\ exiting = FALSE

Next ==
    \/ \E t \in Threads :
          \/ Request(t) \/ CheckPoller(t) \/ Construct(t) \/ Start(t)
          \/ StartAddJob(t) \/ StartScheduler(t) \/ StartSetRunning(t) \/ Return(t)
    \/ \E p \in Pollers : Tick(p) \/ JobRun(p) \/ Stop(p)
    \/ \E c \in Ctx : Poll(c)

Spec == Init /\ [][Next]_vars

(***************************************************************************)
(* SpecPoller: one request thread starts the poller; its scheduler ticks   *)
(***************************************************************************)
NextPoller ==
    \/ Request(1) \/ CheckPoller(1) \/ Construct(1) \/ Start(1)
    \/ StartAddJob(1) \/ StartScheduler(1) \/ StartSetRunning(1) \/ Return(1)
    \/ Tick(1) \/ JobRun(1) \/ Stop(1)
    \/ Poll(<<"req", 1>>) \/ Poll(<<"job", 1>>)

SpecPoller == Init /\ [][NextPoller]_vars

(***************************************************************************)
(* The service after start-up: poller 1 Running, its job scheduled          *)
(***************************************************************************)
Started(submitted) ==
    /\ first_request = FALSE
    /\ poller = 1
    /\ created = {1}
    /\ running = [p \in Pollers |-> p = 1]
    /\ sched = [p \in Pollers |->
                    IF p = 1 THEN [NewScheduler EXCEPT !.state = "running", !.jobs = 1,
                                                       !.submitted = submitted]
                    ELSE NewScheduler]
    /\ tpc = [t \in Threads |-> "idle"]
    /\ tself = [t \in Threads |-> IF t = 1 THEN 1 ELSE 0]
    /\ cyc = [c \in Ctx |-> IdleCycle]
    /\ exiting = FALSE

(***************************************************************************)
(* SpecFetch: one scheduled cycle against every registry answer of two      *)
(* service names, "api" on up to two nodes and "db" on node n1              *)
(***************************************************************************)
FetchRegistries ==
    [names : {<<"api", "db">>},
     svc : [api : ServiceAnswers({<<>>,
                                  <<CatalogEntry("n1", "api-1", "")>>,
                                  <<CatalogEntry("n2", "api-1", "")>>,
                                  <<CatalogEntry("n1", "api-1", ""),
                                    CatalogEntry("n2", "api-1", "")>>,
                                  <<CatalogEntry("n1", "api-1", ""),
                                    CatalogEntry("n2", "api-2", "a1")>>},
                                 CheckLists(MaxChecks, Statuses), {}),
            db : ServiceAnswers({<<>>, <<CatalogEntry("n1", "db-1", "")>>},
                                CheckLists(MaxChecks, Statuses), {})]]

InitFetch ==
    /\ InitStore
    /\ \E reg \in FetchRegistries : registry = {reg}
    /\ Started(1)

NextFetch == JobRun(1) \/ Poll(<<"job", 1>>)

SpecFetch == InitFetch /\ [][NextFetch]_vars

(***************************************************************************)
(* SpecPartial: one scheduled cycle over the names A, B, C, each answer of  *)
(* the health endpoint being a list, a request error or a malformed body    *)
(***************************************************************************)
PartialRegistries ==
    [names : {<<"A", "B", "C">>},
     svc : [A : ServiceAnswers({<<CatalogEntry("n1", "A-1", "")>>},
                               CheckLists(MaxChecks, {"passing", "critical"}),
                               {"error", "malformed"}),
            B : ServiceAnswers({<<CatalogEntry("n1", "B-1", "")>>,
                                <<CatalogEntry("n2", "B-1", "")>>},
                               CheckLists(MaxChecks, {"passing", "critical"}),
                               {"error", "malformed"}),
            C : ServiceAnswers({<<CatalogEntry("n2", "C-1", "")>>},
                               CheckLists(MaxChecks, {"passing", "critical"}),
                               {"error", "malformed"})]]

InitPartial ==
    /\ InitStore
    /\ \E reg \in PartialRegistries : registry = {reg}
    /\ Started(1)

SpecPartial == InitPartial /\ [][NextFetch]_vars

(***************************************************************************)
(* SpecStore: the running poller's cycles one after another, the registry   *)
(* changing and the clock advancing between them                            *)
(***************************************************************************)
Answer(catalog, checks) ==
    [catalog |-> catalog,
     health |-> [kind |-> "ok",
                 entries |-> [i \in 1..Len(catalog) |->
                                [Node |-> catalog[i].Node, ServiceID |-> catalog[i].ServiceID,
                                 Checks |-> checks[i]]]]]

Check(i, status) == [Name |-> CheckNames[i], Status |-> status]

\* web-1 alone on n1; web-1 and web-2 both on n1; web-1 moved to n2; web-1 on
\* n1 with two checks beside db-1 on n1.
StoreRegistries ==
    {[names |-> <<"web", "db">>,
      svc |-> [web |-> Answer(<<CatalogEntry("n1", "web-1", "")>>,
                              <<<<Check(1, "passing")>>>>),
               db |-> Answer(<<>>, <<>>)]],
     [names |-> <<"web", "db">>,
      svc |-> [web |-> Answer(<<CatalogEntry("n1", "web-1", ""), CatalogEntry("n1", "web-2", "")>>,
                              <<<<Check(1, "critical")>>, <<Check(1, "passing")>>>>),
               db |-> Answer(<<>>, <<>>)]],
     [names |-> <<"web", "db">>,
      svc |-> [web |-> Answer(<<CatalogEntry("n2", "web-1", "")>>,
                              <<<<Check(1, "passing")>>>>),
               db |-> Answer(<<>>, <<>>)]],
     [names |-> <<"web", "db">>,
      svc |-> [web |-> Answer(<<CatalogEntry("n1", "web-1", "")>>,
                              <<<<Check(1, "passing"), Check(2, "warning")>>>>),
               db |-> Answer(<<CatalogEntry("n1", "db-1", "")>>,
                             <<<<Check(1, "critical")>>>>)]]}

InitStoreSpec ==
    /\ InitStore
    /\ registry = StoreRegistries
    /\ Started(0)

NextStore == Tick(1) \/ JobRun(1) \/ Poll(<<"job", 1>>) \/ AdvanceClock

SpecStore == InitStoreSpec /\ [][NextStore]_vars

(***************************************************************************)
(* SpecQuery: the history query on the store that up to MaxTicks complete   *)
(* cycles, a minute apart, have left, and after hours without a write       *)
(***************************************************************************)
NoTables == [instances |-> {}, instance_health |-> <<>>, services |-> {}, health_checks |-> <<>>]

\* The tables after the cycles of minutes t, t + 1, ..., each on one of the
\* registry answers regs.
RECURSIVE after_cycles(_, _, _, _)
after_cycles(db, regs, n, t) ==
    IF n = 0 THEN {db}
    ELSE UNION {after_cycles(apply_plan(db, write_plan(fetch_all_service_data(reg).instances),
                                        CURRENT_TIMESTAMP(t)),
                             regs, n - 1, t + 1)
                : reg \in regs}

InitQuery ==
    /\ \E n \in 0..MaxTicks :
          /\ now = n
          /\ \E db \in after_cycles(NoTables, StoreRegistries, n, 1) :
                /\ instances = db.instances
                /\ instance_health = db.instance_health
                /\ services = db.services
                /\ health_checks = db.health_checks
    /\ history = NoHistory
    /\ chart = NoChart
    /\ dashboard = NoGrouped
    /\ session = NewSession
    /\ registry = StoreRegistries
    /\ Started(0)

NextQuery == QueryHistory \/ AdvanceClock

SpecQuery == InitQuery /\ [][NextQuery]_vars

(***************************************************************************)
(* SpecAgg: aggregate_health_data applied to every history of at most      *)
(* MaxRows rows, two days after the clock's origin                         *)
(***************************************************************************)
RECURSIVE SeqsUpTo(_, _)
SeqsUpTo(S, n) ==
    IF n = 0 THEN {<<>>}
    ELSE LET shorter == SeqsUpTo(S, n - 1)
         IN  shorter \cup {Append(q, x) : q \in shorter, x \in S}

\* Rows around the edges of the window [end - 24h, end), and one row of each
\* timestamp form the store does not write.
HistoryRows(end_time) ==
    {[status |-> st, timestamp |-> CURRENT_TIMESTAMP(t)] :
        st \in Statuses,
        t \in {end_time - 1441, end_time - 1440, end_time - 1381, end_time - 1, end_time}}
    \cup {[status |-> "passing", timestamp |-> [fmt |-> "z", t |-> end_time - 1]],
          [status |-> "passing", timestamp |-> [fmt |-> "null", t |-> 0]],
          [status |-> "passing", timestamp |-> [fmt |-> "bad", t |-> 0]]}

InitAgg ==
    /\ instances = {}
    /\ services = {}
    /\ health_checks = <<>>
    /\ instance_health = <<>>
    /\ now = 2 * 1440
    /\ \E rows \in SeqsUpTo(HistoryRows(2 * 1440), MaxRows) :
          history = [service_name |-> "web", instance_address |-> "a1", hours |-> 24,
                     rows |-> rows]
    /\ chart = NoChart
    /\ dashboard = NoGrouped
    /\ session = NewSession
    /\ registry = SmallRegistries
    /\ Started(0)

NextAgg == Aggregate

SpecAgg == InitAgg /\ [][NextAgg]_vars

(***************************************************************************)
(* SpecHistory: the history route on the store that up to MaxTicks complete *)
(* cycles, a minute apart, have left, at once or about a day later          *)
(***************************************************************************)
InitHistory ==
    /\ \E n \in 0..MaxTicks :
          /\ now \in {n, n + HoursSpan * 60 - 1, HoursSpan * 60 + 1, n + HoursSpan * 60}
          /\ \E db \in after_cycles(NoTables, StoreRegistries, n, 1) :
                /\ instances = db.instances
                /\ instance_health = db.instance_health
                /\ services = db.services
                /\ health_checks = db.health_checks
    /\ history = NoHistory
    /\ chart = NoChart
    /\ dashboard = NoGrouped
    /\ session = NewSession
    /\ registry = StoreRegistries
    /\ Started(0)

NextHistory == ServiceHistory

SpecHistory == InitHistory /\ [][NextHistory]_vars

(***************************************************************************)
(* SpecConfig: one client sets its configuration and asks for the history   *)
(* of a service with one passing check in the last hour                     *)
(***************************************************************************)
InitConfig ==
    /\ instances = {}
    /\ services = {}
    /\ health_checks = <<>>
    /\ instance_health = <<>>
    /\ now = 2 * 1440
    /\ history = [service_name |-> "web", instance_address |-> "a1", hours |-> 24,
                  rows |-> <<[status |-> "passing",
                              timestamp |-> CURRENT_TIMESTAMP(2 * 1440 - 1)]>>]
    /\ chart = NoChart
    /\ dashboard = NoGrouped
    /\ session = NewSession
    /\ registry = SmallRegistries
    /\ Started(0)

NextConfig == UpdateConfig \/ Aggregate

SpecConfig == InitConfig /\ [][NextConfig]_vars

(***************************************************************************)
(* SpecGrouped: the services query on the store that up to MaxTicks         *)
(* complete cycles have left, for web-1 on n1 in every health, web-2 on n2  *)
(* unchecked, passing or warning, and db-1 passing                          *)
(***************************************************************************)
\* No check, one check of any status, or a passing and a critical one.
GroupedChecks ==
    {<<>>, <<Check(1, "passing"), Check(2, "critical")>>}
        \cup {<<Check(1, st)>> : st \in Statuses}

GroupedRegistries ==
    {[names |-> <<"web", "db">>,
      svc |-> [web |-> Answer(<<CatalogEntry("n1", "web-1", ""), CatalogEntry("n2", "web-2", "")>>,
                              <<l1, l2>>),
               db |-> Answer(<<CatalogEntry("n1", "db-1", "")>>, <<<<Check(1, "passing")>>>>)]]
     : l1 \in GroupedChecks,
       l2 \in {<<>>, <<Check(1, "passing")>>, <<Check(1, "warning")>>}}

InitGrouped ==
    /\ \E n \in 0..MaxTicks :
          /\ now = n
          /\ \E db \in after_cycles(NoTables, GroupedRegistries, n, 1) :
                /\ instances = db.instances
                /\ instance_health = db.instance_health
                /\ services = db.services
                /\ health_checks = db.health_checks
    /\ history = NoHistory
    /\ chart = NoChart
    /\ dashboard = NoGrouped
    /\ session = NewSession
    /\ registry = GroupedRegistries
    /\ Started(0)

NextGrouped == QueryGrouped

SpecGrouped == InitGrouped /\ [][NextGrouped]_vars

(***************************************************************************)
(* SpecBucket: aggregate_health_data applied to up to MaxSamples rows of    *)
(* one minute, the last before end_time, of every mix of statuses           *)
(***************************************************************************)
Repeat(x, n) == [i \in 1..n |-> x]

\* np passing rows, then nw warning, nc critical and nm maintenance ones.
Samples(np, nw, nc, nm, t) ==
    LET row(st) == [status |-> st, timestamp |-> CURRENT_TIMESTAMP(t)]
    IN  Repeat(row("passing"), np) \o Repeat(row("warning"), nw)
            \o Repeat(row("critical"), nc) \o Repeat(row("maintenance"), nm)

InitBucket ==
    /\ instances = {}
    /\ services = {}
    /\ health_checks = <<>>
    /\ instance_health = <<>>
    /\ now = 2 * 1440
    /\ \E np, nw, nc, nm \in 0..MaxSamples :
          /\ np + nw + nc + nm <= MaxSamples
          /\ history = [service_name |-> "web", instance_address |-> "a1", hours |-> 24,
                        rows |-> Samples(np, nw, nc, nm, 2 * 1440 - 1)]
    /\ chart = NoChart
    /\ dashboard = NoGrouped
    /\ session = NewSession
    /\ registry = SmallRegistries
    /\ Started(0)

SpecBucket == InitBucket /\ [][NextAgg]_vars

(***************************************************************************)
(* Properties                                                              *)
(***************************************************************************)
Job1 == <<"job", 1>>

InFlight == {c \in Ctx : cyc[c].pc # "idle"}

\* C1: at most one execution of poll_consul is in progress.
C1_AtMostOnePoll == Cardinality(InFlight) <= 1

\* C2: a tick of a Running poller's timer that fires while a poll cycle is
\* executing submits no run: nothing starts beside the cycle in flight and
\* nothing is left to start after it.
C2_TickDropped ==
    [][\A p \in Pollers :
          (/\ sched'[p].ticks = sched[p].ticks + 1
           /\ running[p]
           /\ InFlight # {})
          => sched'[p].submitted = sched[p].submitted]_vars

\* The scheduler and the poller's state are as they were, and the run of a
\* scheduled cycle is released, so that the next tick is accepted; the
\* request thread of an initial poll goes on in start().
Contained(c) ==
    /\ cyc'[c].pc = "idle"
    /\ running' = running
    /\ \A p \in Pollers : /\ sched'[p].state = sched[p].state
                          /\ sched'[p].jobs = sched[p].jobs
                          /\ sched'[p].pending = sched[p].pending
    /\ c[1] = "job" => /\ sched'[c[2]].submitted = sched[c[2]].submitted - 1
                       /\ sched'[c[2]].submitted < max_instances
    /\ tpc' = tpc
    /\ exiting' = exiting

\* C3: a cycle that ends in an error (in the fetch, in opening the store, in
\* any write) leaves the poller Running with its job scheduled and its run
\* released; nothing reaches the caller of poll_consul.
C3_ErrorContained ==
    [][\A c \in Ctx :
          (cyc[c].pc # "idle" /\ cyc'[c].outcome \in {"error", "nodata"}) => Contained(c)]_vars

C3_Witness ==
    /\ running[1]
    /\ sched[1].state = "running"
    /\ sched[1].jobs = 1
    /\ cyc[Job1].pc = "write"
    /\ cyc[Job1].conns >= 2

\* C4: a cycle whose availability probe fails ends there: the four tables,
\* the poller's state and its scheduler are as they were and the run ends as
\* any other.
C4_ProbeFailureSkips ==
    [][\A c \in Ctx :
          (cyc[c].pc = "probe" /\ cyc'[c].outcome = "unavailable")
          => /\ Contained(c)
             /\ UNCHANGED <<instances, services, health_checks, instance_health>>]_vars

C4_Witness ==
    /\ running[1]
    /\ sched[1].state = "running"
    /\ sched[1].jobs = 1
    /\ cyc[Job1].pc = "idle"
    /\ cyc[Job1].outcome = "unavailable"
    /\ health_checks # <<>>

\* The cycle of context c has run all its write statements.
AllWritten(c) == cyc[c].pc = "write" /\ cyc[c].k = Len(cyc[c].plan)

\* The statements of plan that belong to the instance whose upsert is at j.
InstanceSpan(plan, j) ==
    LET later == {i \in (j + 1)..Len(plan) : plan[i].op = "upsert_instance"}
        stop == IF later = {} THEN Len(plan) + 1
                ELSE CHOOSE i \in later : \A i2 \in later : i <= i2
    IN  (j + 1)..(stop - 1)

CheckStatusesOf(plan, j) ==
    {plan[i].status : i \in {i \in InstanceSpan(plan, j) : plan[i].op = "insert_health_check"}}

WorstOf(S, status) ==
    /\ "critical" \in S => status = "critical"
    /\ ("warning" \in S /\ "critical" \notin S) => status = "warning"
    /\ (S # {} /\ S \subseteq {"passing"}) => status = "passing"

\* Every service of the registry answer reg named `name` is in the store with
\* every check its health entry lists.
Recorded(reg, name) ==
    \A i \in 1..Len(reg.svc[name].catalog) :
        LET inst == reg.svc[name].catalog[i]
            checks == health_map_get(reg.svc[name].health.entries, inst.Node, inst.ServiceID)
        IN  /\ \E s \in services : s.id = inst.ServiceID /\ s.name = name
            /\ \A j \in 1..Len(checks) :
                  \E r \in 1..Len(health_checks) :
                     /\ health_checks[r].service_id = inst.ServiceID
                     /\ health_checks[r].check_name = checks[j].Name
                     /\ health_checks[r].status = checks[j].Status

\* Nothing of the services named `name` is in the store.
Skipped(reg, name) ==
    /\ \A s \in services : s.name # name
    /\ \A i \in 1..Len(reg.svc[name].catalog) :
          \A r \in 1..Len(health_checks) :
             health_checks[r].service_id # reg.svc[name].catalog[i].ServiceID

OnlyBFails(reg) ==
    /\ reg.svc["A"].health.kind = "ok"
    /\ reg.svc["B"].health.kind \in {"error", "malformed"}
    /\ reg.svc["C"].health.kind = "ok"

\* C5 (as claimed): when, reconciling the names A, B, C, only B's health fetch
\* fails (a request error or a malformed answer) and nothing else goes wrong in
\* the cycle, the cycle ends with A and C in the store with all their checks
\* and with nothing of B written.
C5_PartialFailureIsolation ==
    \A reg \in registry :
        (/\ OnlyBFails(reg)
         /\ cyc[Job1].pc = "idle"
         /\ cyc[Job1].outcome \in {"ok", "nodata"})
        => /\ cyc[Job1].outcome = "ok"
           /\ Recorded(reg, "A")
           /\ Recorded(reg, "C")
           /\ Skipped(reg, "B")

\* C6: the composite health the reconciler hands to the store for an instance,
\* and the health_status the store then holds for it, is the worst status among
\* all checks of all services on that address: critical if any check is
\* critical, warning if any is warning and none critical, passing if all are
\* passing.
C6_CompositeIsWorst ==
    \A c \in Ctx :
        \A j \in 1..Len(cyc[c].plan) :
            cyc[c].plan[j].op = "upsert_instance" =>
                /\ WorstOf(CheckStatusesOf(cyc[c].plan, j), cyc[c].plan[j].status)
                /\ j <= cyc[c].k =>
                      \E r \in instances :
                         /\ r.address = cyc[c].plan[j].address
                         /\ WorstOf(CheckStatusesOf(cyc[c].plan, j), r.health_status)

\* Two services on one address, a warning check and a critical one between
\* them, all written, the instance critical.
C6_Witness ==
    /\ AllWritten(Job1)
    /\ \E r \in instances :
          /\ r.health_status = "critical"
          /\ Cardinality({s \in services : s.address = r.address}) >= 2
          /\ \E i, j \in 1..Len(health_checks) :
                /\ health_checks[i].status = "warning"
                /\ health_checks[j].status = "critical"
                /\ \A x \in {i, j} : \E s \in services :
                      s.id = health_checks[x].service_id /\ s.address = r.address


(***************************************************************************)
(* The store: upserts and history tables                                   *)
(***************************************************************************)
KeysUnique ==
    /\ \A r1, r2 \in services : r1.id = r2.id => r1 = r2
    /\ \A r1, r2 \in instances : r1.address = r2.address => r1 = r2

FirstSeenKept ==
    /\ \A r \in services : \E r2 \in services' : r2.id = r.id /\ r2.first_seen = r.first_seen
    /\ \A r \in instances :
          \E r2 \in instances' : r2.address = r.address /\ r2.first_seen = r.first_seen

\* The statement a write step of context c executes.
Written(c) == cyc[c].plan[cyc[c].k + 1]

WriteStep(c) == cyc[c].pc = "write" /\ cyc'[c].pc = "write" /\ cyc'[c].k = cyc[c].k + 1

UpsertStamps ==
    \A c \in Ctx : WriteStep(c) =>
        /\ Written(c).op = "upsert_service" =>
              /\ \E r \in services' : /\ r.id = Written(c).id
                                      /\ r.last_seen = CURRENT_TIMESTAMP(now)
                                      /\ r.name = Written(c).name
                                      /\ r.address = Written(c).address
              /\ (\A r \in services : r.id # Written(c).id) =>
                    \E r \in services' : /\ r.id = Written(c).id
                                         /\ r.first_seen = CURRENT_TIMESTAMP(now)
        /\ Written(c).op = "upsert_instance" =>
              /\ \E r \in instances' : /\ r.address = Written(c).address
                                       /\ r.last_seen = CURRENT_TIMESTAMP(now)
                                       /\ r.health_status = Written(c).status
              /\ (\A r \in instances : r.address # Written(c).address) =>
                    \E r \in instances' : /\ r.address = Written(c).address
                                          /\ r.first_seen = CURRENT_TIMESTAMP(now)

\* C7: an upsert of a key already stored leaves one row for the key, with the
\* first_seen of the first upsert and the last_seen of the latest; no table
\* ever holds two rows of one key and no first_seen ever changes.
C7_UpsertIdempotent == [][KeysUnique' /\ FirstSeenKept /\ UpsertStamps]_vars

C7_Witness ==
    /\ \E r \in services : r.last_seen.t > r.first_seen.t
    /\ \E r \in instances : r.last_seen.t > r.first_seen.t

OpsOf(plan, op) == SelectSeq(plan, LAMBDA w : w.op = op)

AppendOnly ==
    /\ Len(health_checks') >= Len(health_checks)
    /\ SubSeq(health_checks', 1, Len(health_checks)) = health_checks
    /\ Len(instance_health') >= Len(instance_health)
    /\ SubSeq(instance_health', 1, Len(instance_health)) = instance_health

CloseStep(c) == cyc[c].pc = "write" /\ cyc'[c].pc = "idle" /\ cyc'[c].outcome = "ok"

OneRowEach(c) ==
    LET checks == OpsOf(cyc[c].plan, "insert_health_check")
        insts  == OpsOf(cyc[c].plan, "upsert_instance")
    IN  /\ Len(health_checks) = cyc[c].hc0 + Len(checks)
        /\ \A j \in 1..Len(checks) :
              LET row == health_checks[cyc[c].hc0 + j]
              IN  /\ row.service_id = checks[j].id
                  /\ row.check_name = checks[j].check_name
                  /\ row.status = checks[j].status
        /\ Len(instance_health) = cyc[c].ih0 + Len(insts)
        /\ \A j \in 1..Len(insts) :
              LET row == instance_health[cyc[c].ih0 + j]
              IN  /\ row.address = insts[j].address
                  /\ row.health_status = insts[j].status

\* C8: a cycle that completes has appended one health_checks row per check
\* it observed and one instance_health row per instance it observed, and no
\* step modifies or removes a row of either table.
C8_HistoryAppendOnly ==
    [][AppendOnly /\ \A c \in Ctx : CloseStep(c) => OneRowEach(c)]_vars

C8_Witness ==
    /\ cyc[Job1].pc = "idle"
    /\ cyc[Job1].outcome = "ok"
    /\ \E i, j \in 1..Len(health_checks) :
          /\ i < j
          /\ health_checks[i].service_id = health_checks[j].service_id
          /\ health_checks[i].check_name = health_checks[j].check_name
          /\ health_checks[i].status = health_checks[j].status
    /\ \E i, j \in 1..Len(instance_health) :
          /\ i < j
          /\ instance_health[i].address = instance_health[j].address
          /\ instance_health[i].health_status = instance_health[j].health_status

(***************************************************************************)
(* The history query                                                       *)
(***************************************************************************)
RowsOfService(id) == {i \in 1..Len(health_checks) : health_checks[i].service_id = id}

InWindow(i, hours) == health_checks[i].timestamp.t >= now - hours * 60

Pair(i) == [status |-> health_checks[i].status, timestamp |-> health_checks[i].timestamp]

\* rows lists the stored rows S, each once, in ascending timestamp order.
IsOrderOf(rows, S) ==
    /\ Len(rows) = Cardinality(S)
    /\ \A i, j \in 1..Len(rows) : i < j => rows[i].timestamp.t <= rows[j].timestamp.t
    /\ \A v \in {Pair(i) : i \in S} \cup {rows[k] : k \in 1..Len(rows)} :
          Cardinality({k \in 1..Len(rows) : rows[k] = v})
              = Cardinality({i \in S : Pair(i) = v})

Queried(s, q) == s.name = q.service_name /\ s.address = q.instance_address

\* C9 as stated: a query for a service's name and address over a window
\* covering all its rows returns exactly the rows of that service.
C9_ExactlyTheServiceRows ==
    [][history' # history =>
         \A s \in services :
            (/\ Queried(s, history')
             /\ \A i \in RowsOfService(s.id) : InWindow(i, history'.hours))
            => IsOrderOf(history'.rows, RowsOfService(s.id))]_vars

\* C9 amended: the query returns, in ascending timestamp order, exactly the
\* rows within the window of every service id whose stored name and address
\* are the queried ones; these are exactly the N rows of a service when no
\* other service id is stored under its name and address and the window
\* covers them all.
C9_RowsOfNameAndAddress ==
    [][history' # history =>
         /\ IsOrderOf(history'.rows,
                      {i \in 1..Len(health_checks) :
                          /\ InWindow(i, history'.hours)
                          /\ \E s \in services : /\ s.id = health_checks[i].service_id
                                                 /\ Queried(s, history')})
         /\ \A s \in services :
               (/\ Queried(s, history')
                /\ \A o \in services : Queried(o, history') => o.id = s.id
                /\ \A i \in RowsOfService(s.id) : InWindow(i, history'.hours))
               => IsOrderOf(history'.rows, RowsOfService(s.id))]_vars

C9_Witness ==
    \E s \in services :
        /\ Queried(s, history)
        /\ \A o \in services : Queried(o, history) => o.id = s.id
        /\ Cardinality(RowsOfService(s.id)) >= 2
        /\ Len(history.rows) = Cardinality(RowsOfService(s.id))
        /\ history.rows[1].timestamp.t < history.rows[Len(history.rows)].timestamp.t
        /\ \E o \in services : o.id # s.id /\ RowsOfService(o.id) # {}


(***************************************************************************)
(* The aggregation                                                         *)
(***************************************************************************)
Aggregated == chart.kind # "none"

DividesDay(w) == w > 0 /\ (HoursSpan * 60) % w = 0

\* No row of the history was observed in [slot, slot + w).
NoObservation(rows, slot, w) ==
    \A i \in 1..Len(rows) :
        ~ /\ rows[i].timestamp.fmt = "sqlite"
          /\ slot <= rows[i].timestamp.t
          /\ rows[i].timestamp.t < slot + w

FullDayOfBuckets ==
    /\ chart.kind = "ok"
    /\ Len(chart.data) = (HoursSpan * 60) \div chart.granularity
    /\ \A k \in 1..Len(chart.data) :
          LET slot == chart.end_time - HoursSpan * 60 + (k - 1) * chart.granularity
          IN  /\ chart.data[k].timestamp = isoformat(slot)
              /\ NoObservation(history.rows, slot, chart.granularity) =>
                    /\ chart.data[k].passing = 0
                    /\ chart.data[k].warning = 0
                    /\ chart.data[k].critical = 0

\* C10 as stated: for any history and a window dividing the day, the result
\* is 1440/window contiguous buckets from end - 24h, the empty ones (0, 0, 0).
C10_BucketsForAnyHistory ==
    (Aggregated /\ DividesDay(chart.granularity)) => FullDayOfBuckets

\* C10 amended: for a history that is not empty and whose timestamps are
\* strings without a zone designator, and a window dividing the day, the result is 1440/window
\* contiguous buckets from end - 24h, the empty ones (0, 0, 0); for the empty
\* history the result is the empty list.
C10_BucketsForNonEmptyHistory ==
    /\ (/\ Aggregated
        /\ DividesDay(chart.granularity)
        /\ history.rows # <<>>
        /\ \A i \in 1..Len(history.rows) : history.rows[i].timestamp.fmt \in {"sqlite", "bad"})
       => FullDayOfBuckets
    /\ (Aggregated /\ history.rows = <<>>) => chart.kind = "ok" /\ chart.data = <<>>

C10_Witness ==
    /\ chart.kind = "ok"
    /\ chart.granularity = 60
    /\ Len(chart.data) = 24
    /\ \E i \in 1..Len(history.rows) : /\ history.rows[i].timestamp.fmt = "sqlite"
                                       /\ history.rows[i].timestamp.t = chart.end_time - 1
    /\ chart.data[24].passing + chart.data[24].warning + chart.data[24].critical > 0
    /\ chart.data[2].passing = 0 /\ chart.data[2].warning = 0 /\ chart.data[2].critical = 0


(***************************************************************************)
(* The percentages of a bucket                                             *)
(***************************************************************************)
StatusesOf(rows) == [i \in 1..Len(rows) |-> rows[i].status]

\* The bucket of the minute before end_time: the last one.
LastBucket == chart.data[Len(chart.data)]

Bucketed == chart.kind = "ok" /\ chart.data # <<>>

\* C11 as stated: [passing, passing, critical] in one window gives passing
\* 33.3, warning 0, critical 66.7.
C11_OneThirdPassing ==
    (Bucketed /\ StatusesOf(history.rows) = <<"passing", "passing", "critical">>)
    => /\ LastBucket.passing = 333
       /\ LastBucket.warning = 0
       /\ LastBucket.critical = 667

\* C11 amended: [passing, passing, critical] in one window gives passing
\* 66.7, warning 0, critical 33.3.
C11_TwoThirdsPassing ==
    (Bucketed /\ StatusesOf(history.rows) = <<"passing", "passing", "critical">>)
    => /\ LastBucket.passing = 667
       /\ LastBucket.warning = 0
       /\ LastBucket.critical = 333

C11_Witness ==
    /\ Bucketed
    /\ StatusesOf(history.rows) = <<"passing", "passing", "critical">>
    /\ chart.granularity = 15
    /\ LastBucket.timestamp = isoformat(chart.end_time - 15)
    /\ LastBucket.passing = 667


(***************************************************************************)
(* Rows whose timestamp does not parse                                     *)
(***************************************************************************)
Parses(row) == row.timestamp.fmt = "sqlite"

\* C12: with a positive window, the aggregation of a history returns, and its
\* buckets are those of the history without the rows whose timestamp is of
\* a wrong format, carries a zone marker or is missing.
C12_UnparsableRowDropped ==
    (Aggregated /\ chart.granularity > 0 /\ history.rows # <<>>)
    => /\ chart.kind = "ok"
       /\ LET kept == SelectSeq(history.rows, Parses)
          IN  kept # <<>> =>
                 chart.data = aggregate_health_data(kept, chart.granularity,
                                                    chart.end_time).data


(***************************************************************************)
(* The services query                                                      *)
(***************************************************************************)
CurrentStatuses(row) == {row.instances[k].current_status : k \in 1..Len(row.instances)}

\* C13: the composite status of a name is critical if an instance is
\* critical, else warning if one is warning, else passing if all are passing,
\* else unknown, whatever the order of the instances.
C13_GroupedComposite ==
    \A n \in 1..Len(dashboard.services) :
        LET row == dashboard.services[n]
            S == CurrentStatuses(row)
        IN  row.composite_status =
                IF "critical" \in S THEN "critical"
                ELSE IF "warning" \in S THEN "warning"
                ELSE IF S \subseteq {"passing"} THEN "passing"
                ELSE "unknown"

C13_Witness ==
    \E n \in 1..Len(dashboard.services) :
        LET row == dashboard.services[n]
        IN  /\ row.composite_status = "unknown"
            /\ Len(row.instances) = 2
            /\ row.instances[1].current_status = "passing"
            /\ row.instances[2].current_status \in {"None", "maintenance"}


(***************************************************************************)
(* Start and stop of the poller                                            *)
(***************************************************************************)
\* A request thread is inside the poll_consul() call of p.start().
InitialInFlight(p) == \E t \in Threads : tself[t] = p /\ cyc[<<"req", t>>].pc # "idle"

\* C14: while the initial cycle of a poller's start() runs, its timer is not
\* scheduled, the poller is not Running and no scheduled cycle of it has
\* begun.
C14_InitialCycleFirst ==
    \A p \in Pollers :
        InitialInFlight(p)
        => /\ ~running[p]
           /\ sched[p].jobs + sched[p].pending = 0
           /\ cyc[<<"job", p>>].pc = "idle"


\* The poller was started and then stopped: stop() has shut its scheduler
\* down, the job it had added is still there.
WasStopped(p) ==
    /\ exiting
    /\ ~running[p]
    /\ sched[p].state = "stopped"
    /\ sched[p].jobs = 1
    /\ sched[p].pending = 0

\* The execution contexts of the cycles of poller p.
CyclesOf(p) == {<<"job", p>>} \cup {<<"req", t>> : t \in {t \in Threads : tself'[t] = p}}

\* C15: stop() leaves the cycles in flight and the tables as they are, so the
\* cycle goes on with its remaining statements, and no cycle of a stopped
\* poller begins.
C15_StopKeepsCycleAndEndsPolling ==
    [][\A p \in Pollers :
          /\ (running[p] /\ ~running'[p])
             => /\ cyc' = cyc
                /\ <<instances, services, health_checks, instance_health>>' =
                       <<instances, services, health_checks, instance_health>>
          /\ WasStopped(p)
             => \A c \in CyclesOf(p) : cyc[c].pc = "idle" => cyc'[c].pc = "idle"]_vars


(***************************************************************************)
(* A cycle that fails in its write loops                                   *)
(***************************************************************************)
\* After the first k statements of the plan a service has its upsert in the
\* store and a health check of it still to be written.
HalfApplied(plan, k) ==
    \E i \in 1..k, j \in (k + 1)..Len(plan) :
        /\ plan[i].op = "upsert_service"
        /\ plan[j].op = "insert_health_check"
        /\ plan[j].id = plan[i].id

\* C16: a cycle that ends in an error in its write loops leaves no service
\* with its upsert written and one of its observed health checks not written.
C16_NoHalfAppliedService ==
    [][\A c \in Ctx :
          (cyc[c].pc = "write" /\ cyc'[c].pc = "idle" /\ cyc'[c].outcome = "error")
          => ~HalfApplied(cyc[c].plan, cyc[c].k)]_vars


(***************************************************************************)
(* The composite health of an instance without a recognized check          *)
(***************************************************************************)
\* C17: the composite health the reconciler hands to the store for an
\* instance is "passing" when no service on the address has a check, and
\* "unknown" when there are checks and none has a recognized status.
C17_DefaultsOfComposite ==
    \A c \in Ctx :
        \A j \in 1..Len(cyc[c].plan) :
            cyc[c].plan[j].op = "upsert_instance" =>
                LET S == CheckStatusesOf(cyc[c].plan, j)
                IN  /\ S = {} => cyc[c].plan[j].status = "passing"
                    /\ (S # {} /\ S \cap Recognized = {})
                          => cyc[c].plan[j].status = "unknown"


(***************************************************************************)
(* The configuration of a session                                          *)
(***************************************************************************)
StoredInOptions ==
    /\ session_get(session.auto_refresh_interval, 60) \in IntervalOptions
    /\ session_get(session.history_granularity, 15) \in GranularityOptions

\* An update changes a stored number only to one of the options.
RejectsOutOfSet ==
    /\ session'.auto_refresh_interval # session.auto_refresh_interval
          => session'.auto_refresh_interval \in IntervalOptions
    /\ session'.history_granularity # session.history_granularity
          => session'.history_granularity \in GranularityOptions

\* C18: the stored interval and granularity are always among the options, an
\* update with another value leaves the stored value as it was, and the
\* granularity a history query is bucketed by is among the options.
C18_ConfigInOptions ==
    /\ [](StoredInOptions /\ (Aggregated => chart.granularity \in GranularityOptions))
    /\ [][RejectsOutOfSet]_vars

C18_StoredConfigInOptions == []StoredInOptions /\ [][RejectsOutOfSet]_vars


(***************************************************************************)
(* The sum of a bucket's percentages (in tenths)                           *)
(***************************************************************************)
SumOf(b) == b.passing + b.warning + b.critical

\* The rows of SpecBucket are of one minute, the last before end_time: they
\* are the checks of the last bucket, every other bucket is empty.
AllRecognized == \A i \in 1..Len(history.rows) : history.rows[i].status \in Recognized

\* C19 as stated: the three percentages of a bucket sum to at most 100, and
\* to exactly 100 when the bucket is non-empty and all its statuses are
\* recognized.
C19_SumIsHundred ==
    Bucketed
    => /\ \A k \in 1..Len(chart.data) : SumOf(chart.data[k]) <= 1000
       /\ AllRecognized => SumOf(LastBucket) = 1000

\* C19 amended: each percentage is rounded to one decimal on its own, so the
\* three sum to at most 100.1, and to 99.9, 100 or 100.1 when the bucket is
\* non-empty and all its statuses are recognized.
C19_SumWithinATenth ==
    Bucketed
    => /\ \A k \in 1..Len(chart.data) : SumOf(chart.data[k]) <= 1001
       /\ AllRecognized => SumOf(LastBucket) \in {999, 1000, 1001}

\* One passing, one warning and four critical checks: 16.7 + 16.7 + 66.7.
C19_Witness ==
    /\ Bucketed
    /\ StatusesOf(history.rows)
           = <<"passing", "warning", "critical", "critical", "critical", "critical">>
    /\ SumOf(LastBucket) = 1001


(***************************************************************************)
(* The rows of a history and the buckets of its chart                      *)
(***************************************************************************)
\* The buckets whose half-open interval holds the timestamp of row i.
Containing(i) ==
    {k \in 1..Len(chart.data) :
        /\ chart.data[k].timestamp.t <= history.rows[i].timestamp.t
        /\ history.rows[i].timestamp.t < chart.data[k].timestamp.t + chart.granularity}

PctOf(b, status) ==
    IF status = "passing" THEN b.passing
    ELSE IF status = "warning" THEN b.warning
    ELSE b.critical

\* C20: with a granularity of the options, every row the store returned for
\* the last 24 hours is counted in exactly one bucket of the chart, the one
\* whose interval holds its timestamp.
C20_EveryRowInOneBucket ==
    (chart.kind = "ok" /\ chart.granularity \in GranularityOptions)
    => \A i \in 1..Len(history.rows) :
          /\ Cardinality(Containing(i)) = 1
          /\ \A k \in Containing(i) :
                history.rows[i].status \in Recognized
                   => PctOf(chart.data[k], history.rows[i].status) > 0


(***************************************************************************)
(* The checks of an instance of a name on several nodes                    *)
(***************************************************************************)
\* The health checks the plan writes right after its statement j, an
\* upsert_service: those the reconciler attached to that service object.
AttachedChecks(plan, j) ==
    LET stops == {m \in (j + 1)..Len(plan) : plan[m].op # "insert_health_check"}
        stop == IF stops = {} THEN Len(plan) + 1
                ELSE CHOOSE m \in stops : \A x \in stops : m <= x
    IN  [m \in 1..(stop - j - 1) |->
            [Name |-> plan[j + m].check_name, Status |-> plan[j + m].status]]

\* The Checks the registry reported for the pair (node, service_id), of which
\* it has at most one entry.
ReportedChecks(health, node, service_id) ==
    IF \E i \in 1..Len(health.entries) :
          health.entries[i].Node = node /\ health.entries[i].ServiceID = service_id
    THEN health.entries[CHOOSE i \in 1..Len(health.entries) :
                           /\ health.entries[i].Node = node
                           /\ health.entries[i].ServiceID = service_id].Checks
    ELSE <<>>

ServiceAt(plan, service_id, address) ==
    {j \in 1..Len(plan) : /\ plan[j].op = "upsert_service"
                          /\ plan[j].id = service_id
                          /\ plan[j].address = address}

\* C21: every catalog instance is handed to the store with exactly the checks
\* the registry reported for its (node, service id) pair, none when the
\* registry has no health entry for the pair.
C21_ChecksOfNodeAndId ==
    \A reg \in registry :
        cyc[Job1].plan # <<>> =>
            \A n \in 1..Len(reg.names) :
                LET answer == reg.svc[reg.names[n]]
                IN  \A i \in 1..Len(answer.catalog) :
                        LET inst == answer.catalog[i]
                            address == IF inst.ServiceAddress # "" THEN inst.ServiceAddress
                                       ELSE inst.Address
                            at == ServiceAt(cyc[Job1].plan, inst.ServiceID, address)
                        IN  /\ Cardinality(at) = 1
                            /\ \A j \in at :
                                  AttachedChecks(cyc[Job1].plan, j)
                                      = ReportedChecks(answer.health, inst.Node, inst.ServiceID)

\* api-1 on two nodes, a check on one node and none or another on the other.
C21_Witness ==
    \E j1, j2 \in 1..Len(cyc[Job1].plan) :
        /\ cyc[Job1].plan[j1].op = "upsert_service"
        /\ cyc[Job1].plan[j2].op = "upsert_service"
        /\ cyc[Job1].plan[j1].id = cyc[Job1].plan[j2].id
        /\ cyc[Job1].plan[j1].address # cyc[Job1].plan[j2].address
        /\ AttachedChecks(cyc[Job1].plan, j1) # <<>>
        /\ AttachedChecks(cyc[Job1].plan, j1) # AttachedChecks(cyc[Job1].plan, j2)


(***************************************************************************)
(* The current status of a service with several checks                     *)
(***************************************************************************)
\* The statuses of the checks the latest poll recorded for a service: the
\* rows of the greatest timestamp.
LatestStatuses(service_id) ==
    LET rows == {i \in 1..Len(health_checks) : health_checks[i].service_id = service_id}
    IN  {health_checks[i].status :
            i \in {i \in rows : \A j \in rows :
                      health_checks[j].timestamp.t <= health_checks[i].timestamp.t}}

\* critical > warning > passing > unknown
WorstStatus(S) ==
    IF "critical" \in S THEN "critical"
    ELSE IF "warning" \in S THEN "warning"
    ELSE IF "passing" \in S THEN "passing"
    ELSE "unknown"

\* C22: the current status the services query attaches to a service whose
\* latest poll recorded checks of different statuses is the worst of them.
C22_CurrentStatusIsWorst ==
    \A n \in 1..Len(dashboard.services) :
        \A k \in 1..Len(dashboard.services[n].instances) :
            LET inst == dashboard.services[n].instances[k]
            IN  Cardinality(LatestStatuses(inst.id)) >= 2
                   => inst.current_status = WorstStatus(LatestStatuses(inst.id))


(***************************************************************************)
(* References between the tables                                           *)
(***************************************************************************)
References ==
    /\ \A i \in 1..Len(health_checks) :
          \E s \in services : s.id = health_checks[i].service_id
    /\ \A s \in services : \E r \in instances : r.address = s.address
    /\ \A i \in 1..Len(instance_health) :
          \E r \in instances : r.address = instance_health[i].address

NothingRemoved ==
    /\ \A r \in instances : \E q \in instances' : q.address = r.address
    /\ \A s \in services : \E q \in services' : q.id = s.id

\* C23: in every state of the store, inside a cycle and after one that failed
\* partway too, a health check refers to a service of the store, a service's
\* address and an instance health row to an instance of the store, and no
\* step removes an instance or a service.
C23_ReferencesHold == []References /\ [][NothingRemoved]_vars

\* A cycle has failed in its write loops after a service moved to another
\* address, both instances and checks of the service being in the store.
C23_Witness ==
    /\ cyc[Job1].pc = "idle"
    /\ cyc[Job1].outcome = "error"
    /\ Cardinality(instances) >= 2
    /\ \E s \in services :
          /\ s.last_seen.t > s.first_seen.t
          /\ \E i \in 1..Len(health_checks) : health_checks[i].service_id = s.id
          /\ \E i \in 1..Len(instance_health) :
                /\ instance_health[i].address # s.address
                /\ instance_health[i].timestamp.t = s.first_seen.t


(***************************************************************************)
(* The history of a service that moved to another address                  *)
(***************************************************************************)
\* The addresses the cycle stamped ts recorded an instance health for: those
\* the services of that cycle were registered at.
AddressesOfCycle(ts) ==
    {instance_health[k].address :
        k \in {k \in 1..Len(instance_health) : instance_health[k].timestamp = ts}}

\* C24: the rows the history query returns for a name and an address were
\* observed by cycles in which the service was registered at that address,
\* also after the service id has moved from another address.
C24_HistoryOfTheAddressOnly ==
    \A k \in 1..Len(history.rows) :
        AddressesOfCycle(history.rows[k].timestamp) = {history.instance_address}


(***************************************************************************)
(* Termination of the aggregation                                          *)
(***************************************************************************)
\* C25: aggregate_health_data returns or raises for every granularity the
\* history route hands to it and every history; its slot loop always ends.
C25_AggregateTerminates == Aggregated => chart.kind \in {"ok", "raised"}

(***************************************************************************)
(* The connections of a cycle                                              *)
(***************************************************************************)
\* C26: a context in which no cycle runs holds no connection that a cycle
\* opened and did not close.
C26_ConnectionsClosed == \A c \in Ctx : cyc[c].pc = "idle" => cyc[c].conns = 0

====
